---- MODULE Spec2Model ----
(***************************************************************************)
(* TaskTimer (src/src/TaskTimer.ts): a tick-driven scheduler.  One clock   *)
(* (setInterval) wakes the tick handler; the handler walks the registry    *)
(* and runs the tasks that are due.  Task callbacks and event listeners    *)
(* run synchronously inside the handler and may call back into the timer,  *)
(* so the handler is modelled step by step: between two steps of a tick    *)
(* the public operations may be invoked re-entrantly.                      *)
(***************************************************************************)
EXTENDS Integers, Sequences, FiniteSets, TLC

\* ---------------------------------------------------------------- bounds
MaxTicks == 2        \* wakeups are evaluated while tickCount < MaxTicks
MaxRuns == 3         \* wakeups are evaluated while every currentRuns < MaxRuns
MaxReentrant == 1    \* calls made by callbacks/listeners within one tick
MaxClocks == 2       \* interval timers that may be live at the same time

\* ------------------------------------------------------- program constants
DEFAULT_INTERVAL == 1000

\* The task options the callers of add() pass, each used for one new Task: a
\* task that runs on every tick, twice; and a task that runs on every second
\* tick until its stopDate.  A name of "" stands for no name.
TaskOptions ==
    <<[name |-> "", tickInterval |-> 1, totalRuns |-> 2, stopDate |-> FALSE],
      [name |-> "", tickInterval |-> 2, totalRuns |-> 0, stopDate |-> TRUE]>>

\* Task instances are identified by the options they were constructed from.
TaskIds == DOMAIN TaskOptions

\* Further task options, passed to add() where the names in the registry
\* matter: one more record without a name, a record with a name of its own, and
\* a record whose name is one that the timer also generates.
NamedOptions ==
    <<[name |-> "", tickInterval |-> 1, totalRuns |-> 1, stopDate |-> FALSE],
      [name |-> "job", tickInterval |-> 1, totalRuns |-> 0, stopDate |-> FALSE],
      [name |-> "task-1", tickInterval |-> 1, totalRuns |-> 0, stopDate |-> FALSE]>>

\* A record whose name is an array index, passed to add() where the order of
\* the keys of the registry matters.
IndexOptions ==
    <<[name |-> "1", tickInterval |-> 1, totalRuns |-> 1, stopDate |-> FALSE]>>

AllOptions == TaskOptions \o NamedOptions \o IndexOptions
RegistryIds == DOMAIN (TaskOptions \o NamedOptions)
PoolIds == DOMAIN AllOptions

States == {"idle", "running", "paused", "stopped"}
TaskNameTable ==
    <<"task-1", "task-2", "task-3", "task-4", "task-5", "task-6", "task-7",
      "task-8", "task-9", "task-10">>

\* The names that are array indices (canonical numeric strings), ascending.
IndexNames == <<"0", "1", "2">>

VARIABLES
    state,            \* this._.state
    tickCount,        \* this._.tickCount
    runCount,         \* this._.runCount
    startTime,        \* this._.startTime   (0, or 1 for a Date.now() value)
    stopTime,         \* this._.stopTime    (0, or 1 for a Date.now() value)
    completedCount,   \* this._.completedCount
    options,          \* this._.options : [interval, stopOnCompleted]
    tasks,            \* this._.tasks : the registered Task instances, as inserted
    timer,            \* this._timer : 0 (null) or the handle of a clock
    clocks,           \* the interval timers of the host that are scheduled
    pool,             \* the Task instances constructed so far
    pc,               \* "idle", "ret" (a public method returns), or a position in _tick
    keys,             \* for (name in tasks): the keys still to be visited
    aliased,          \* the object the loop walks is still this._.tasks
    cur,              \* the loop's `task`
    reent,            \* calls made from callbacks/listeners in this tick
    emitted,          \* events emitted by the current operation or tick
    lastOp,           \* the public method called last
    pre,              \* the state when the current operation or tick began
    ran,              \* the tasks executed by the current tick
    thrown            \* the public method called last threw an Error

vars == <<state, tickCount, runCount, startTime, stopTime, completedCount,
          options, tasks, timer, clocks, pool, pc, keys, aliased, cur, reent,
          emitted, lastOp, pre, ran, thrown>>

\* ------------------------------------------------------------------ Task
NoTask ==
    [made |-> FALSE, name |-> "", tickInterval |-> 1, totalRuns |-> 0,
     currentRuns |-> 0, enabled |-> TRUE, stopDate |-> FALSE, expired |-> FALSE]

\* Task.completed: totalRuns reached, or stopDate passed.
Completed(t) ==
    \/ (t.totalRuns > 0 /\ t.currentRuns >= t.totalRuns)
    \/ (t.stopDate /\ t.expired)

\* Task._run's guard: nothing is executed if the task is disabled or completed.
RunDecision(t) == t.enabled /\ ~Completed(t)

\* Task._run's bookkeeping once the callback has returned.
TaskRun(t) == [t EXCEPT !.currentRuns = @ + 1]

\* ------------------------------------------------------------- registry
SeqToSet(s) == {s[k] : k \in 1..Len(s)}
Without(s, x) == SelectSeq(s, LAMBDA y : y # x)

taskCount == Len(tasks)

\* get(name): the registered instance of that name, 0 for null.
get(name) ==
    IF \E k \in 1..Len(tasks) : pool[tasks[k]].name = name
    THEN tasks[CHOOSE k \in 1..Len(tasks) : pool[tasks[k]].name = name]
    ELSE 0

RECURSIVE NewNameFrom(_)
NewNameFrom(num) ==
    IF get(TaskNameTable[num + 1]) # 0 THEN NewNameFrom(num + 1)
    ELSE TaskNameTable[num + 1]

getNewTaskNameMut == NewNameFrom(0)

\* _getNewTaskName: counts up from taskCount until 'task-' + num is free.
getNewTaskName == NewNameFrom(taskCount)

AllDone == taskCount > 0 /\ \A i \in SeqToSet(tasks) : Completed(pool[i])
NumCompleted == Cardinality({i \in SeqToSet(tasks) : Completed(pool[i])})

\* A task is due on tick t: the test of _tick followed by the guard of Task._run.
Due(i, t) == t % pool[i].tickInterval = 0 /\ RunDecision(pool[i])

\* What a tick finds when it begins (kept while the tick is in progress).
NoSnapshot == [tickCount |-> 0, allDone |-> FALSE, due |-> {}]
Snapshot ==
    [tickCount |-> tickCount, allDone |-> AllDone,
     due |-> {i \in SeqToSet(tasks) : Due(i, tickCount)}]

\* ---------------------------------------------------------- call frames
\* Listeners and callbacks run synchronously inside emit()/callback(), so a
\* public method is entered either between ticks or at one of these points.
ListenerPoints ==
    {"callback", "evTask", "evTaskCompleted", "evCompleted", "evStopped", "evTick"}
CallPoints == {"idle"} \cup ListenerPoints

Call(op) ==
    /\ pc \in CallPoints
    /\ pc # "idle" => reent < MaxReentrant
    /\ reent' = IF pc = "idle" THEN 0 ELSE reent + 1
    /\ lastOp' = op
    /\ pc' = IF pc = "idle" THEN "ret" ELSE pc
    /\ UNCHANGED <<cur, ran, pre>>

Log == IF pc = "idle" THEN <<>> ELSE emitted
Event(type, data) == [type |-> type, data |-> data]

\* ----------------------------------------------------------------- clock
ClocksAfterStopMut == clocks

\* _stop(): clearInterval(this._timer) if set.
ClocksAfterStop == {c \in clocks : c.h # timer}

NewHandle(cs) ==
    CHOOSE h \in 1..MaxClocks :
        /\ h \notin {c.h : c \in cs}
        /\ \A g \in 1..(h - 1) : g \in {c.h : c \in cs}

\* _run(): this._timer = setInterval(..., options.interval) on top of `cs`.
RunClock(cs) ==
    /\ Cardinality(cs) < MaxClocks
    /\ clocks' = cs \cup {[h |-> NewHandle(cs), period |-> options.interval]}
    /\ timer' = NewHandle(cs)

Init ==
    /\ state = "idle"
    /\ tickCount = 0
    /\ runCount = 0
    /\ startTime = 0
    /\ stopTime = 0
    /\ completedCount = 0
    /\ options \in [interval : {DEFAULT_INTERVAL}, stopOnCompleted : BOOLEAN]
    /\ tasks = <<>>
    /\ timer = 0
    /\ clocks = {}
    /\ pool = [i \in PoolIds |-> NoTask]
    /\ pc = "idle"
    /\ keys = <<>>
    /\ aliased = FALSE
    /\ cur = 0
    /\ reent = 0
    /\ emitted = <<>>
    /\ lastOp = ""
    /\ pre = NoSnapshot
    /\ ran = {}
    /\ thrown = FALSE

\* ------------------------------------------------------ lifecycle methods
StartMut ==
    /\ Call("start")
    /\ thrown' = FALSE
    /\ RunClock(ClocksAfterStop)
    /\ startTime' = 1
    /\ stopTime' = 0
    /\ tickCount' = 0
    /\ state' = "running"
    /\ emitted' = Append(Log, Event("started", 0))
    /\ UNCHANGED <<runCount, completedCount, options, tasks, pool, keys, aliased>>

Start ==
    /\ Call("start")
    /\ thrown' = FALSE
    /\ RunClock(ClocksAfterStop)
    /\ startTime' = 1
    /\ stopTime' = 0
    /\ tickCount' = 0
    /\ runCount' = 0
    /\ state' = "running"
    /\ emitted' = Append(Log, Event("started", 0))
    /\ UNCHANGED <<completedCount, options, tasks, pool, keys, aliased>>

PauseMut ==
    /\ Call("pause")
    /\ thrown' = FALSE
    /\ clocks' = ClocksAfterStop
    /\ timer' = 0
    /\ state' = "paused"
    /\ emitted' = Append(Log, Event("paused", 0))
    /\ UNCHANGED <<tickCount, runCount, startTime, stopTime, completedCount,
                   options, tasks, pool, keys, aliased>>

Pause ==
    /\ Call("pause")
    /\ thrown' = FALSE
    /\ IF state # "running"
       THEN /\ emitted' = Log
            /\ UNCHANGED <<state, clocks, timer>>
       ELSE /\ clocks' = ClocksAfterStop
            /\ timer' = 0
            /\ state' = "paused"
            /\ emitted' = Append(Log, Event("paused", 0))
    /\ UNCHANGED <<tickCount, runCount, startTime, stopTime, completedCount,
                   options, tasks, pool, keys, aliased>>

ResumeMut ==
    /\ Call("resume")
    /\ thrown' = FALSE
    /\ IF state # "paused"
       THEN /\ emitted' = Log
            /\ UNCHANGED <<state, clocks, timer, tickCount>>
       ELSE /\ RunClock(clocks)
            /\ state' = "running"
            /\ tickCount' = 0
            /\ emitted' = Append(Log, Event("resumed", 0))
    /\ UNCHANGED <<runCount, startTime, stopTime, completedCount,
                   options, tasks, pool, keys, aliased>>

Resume ==
    /\ Call("resume")
    /\ thrown' = FALSE
    /\ IF state # "paused"
       THEN /\ emitted' = Log
            /\ UNCHANGED <<state, clocks, timer>>
       ELSE /\ RunClock(clocks)
            /\ state' = "running"
            /\ emitted' = Append(Log, Event("resumed", 0))
    /\ UNCHANGED <<tickCount, runCount, startTime, stopTime, completedCount,
                   options, tasks, pool, keys, aliased>>

StopBodyMut ==
    IF state # "running"
    THEN /\ emitted' = Log
         /\ UNCHANGED <<state, clocks, timer, stopTime>>
    ELSE /\ stopTime' = 1
         /\ state' = "stopped"
         /\ emitted' = Append(Log, Event("stopped", 0))
         /\ UNCHANGED <<clocks, timer>>

\* stop() as a state change, shared by the public call and by _tick.
StopBody ==
    IF state # "running"
    THEN /\ emitted' = Log
         /\ UNCHANGED <<state, clocks, timer, stopTime>>
    ELSE /\ clocks' = ClocksAfterStop
         /\ timer' = 0
         /\ stopTime' = 1
         /\ state' = "stopped"
         /\ emitted' = Append(Log, Event("stopped", 0))

Stop ==
    /\ Call("stop")
    /\ thrown' = FALSE
    /\ StopBody
    /\ UNCHANGED <<tickCount, runCount, startTime, completedCount,
                   options, tasks, pool, keys, aliased>>

ResetMut ==
    /\ Call("reset")
    /\ thrown' = FALSE
    /\ clocks' = ClocksAfterStop
    /\ timer' = 0
    /\ state' = "idle"
    /\ tasks' = <<>>
    /\ tickCount' = 0
    /\ runCount' = 0
    /\ startTime' = 0
    /\ stopTime' = 0
    /\ aliased' = FALSE
    /\ emitted' = Append(Log, Event("reset", 0))
    /\ UNCHANGED <<completedCount, options, pool, keys>>

\* reset(): _reset() replaces this._ (keeping options), then emits Reset.
Reset ==
    /\ Call("reset")
    /\ thrown' = FALSE
    /\ clocks' = ClocksAfterStop
    /\ timer' = 0
    /\ state' = "idle"
    /\ tasks' = <<>>
    /\ tickCount' = 0
    /\ runCount' = 0
    /\ startTime' = 0
    /\ stopTime' = 0
    /\ completedCount' = 0
    /\ aliased' = FALSE
    /\ emitted' = Append(Log, Event("reset", 0))
    /\ UNCHANGED <<options, pool, keys>>

\* ------------------------------------------------------- registry methods
InLoop == pc \notin {"idle", "ret", "evTick"}

\* for-in over the live registry: a key deleted before it is visited is not
\* visited; a key added during the walk may or may not be visited.
KeysAfterAdd(i) ==
    IF InLoop /\ aliased
    THEN \E visit \in BOOLEAN : keys' = IF visit THEN Append(keys, i) ELSE keys
    ELSE keys' = keys

KeysAfterRemove(i) == IF InLoop /\ aliased THEN Without(keys, i) ELSE keys

ResolvedName(o) == IF o.name = "" THEN getNewTaskName ELSE o.name

Throw ==
    /\ emitted' = Log
    /\ thrown' = TRUE
    /\ UNCHANGED <<state, tickCount, runCount, startTime, stopTime, completedCount,
                   options, tasks, timer, clocks, pool, keys, aliased>>

\* _add(options) with a task-options record (or a bare callback): a new Task.
AddOptions(i) ==
    /\ Call("add")
    /\ ~pool[i].made
    /\ IF get(ResolvedName(AllOptions[i])) # 0
       THEN Throw
       ELSE /\ pool' = [pool EXCEPT ![i] =
                           [made |-> TRUE, name |-> ResolvedName(AllOptions[i]),
                            tickInterval |-> AllOptions[i].tickInterval,
                            totalRuns |-> AllOptions[i].totalRuns,
                            currentRuns |-> 0, enabled |-> TRUE,
                            stopDate |-> AllOptions[i].stopDate, expired |-> FALSE]]
            /\ tasks' = Append(tasks, i)
            /\ KeysAfterAdd(i)
            /\ thrown' = FALSE
            /\ emitted' = Append(Log, Event("taskAdded", i))
            /\ UNCHANGED <<state, tickCount, runCount, startTime, stopTime,
                           completedCount, options, timer, clocks, aliased>>

\* _add(task) with an existing Task instance.
AddInstance(i) ==
    /\ Call("add")
    /\ pool[i].made
    /\ IF get(pool[i].name) # 0
       THEN Throw
       ELSE /\ tasks' = Append(tasks, i)
            /\ KeysAfterAdd(i)
            /\ thrown' = FALSE
            /\ emitted' = Append(Log, Event("taskAdded", i))
            /\ UNCHANGED <<state, tickCount, runCount, startTime, stopTime,
                           completedCount, options, timer, clocks, pool, aliased>>

\* remove(name)
Remove(name) ==
    /\ Call("remove")
    /\ IF get(name) = 0
       THEN Throw
       ELSE /\ completedCount' =
                   IF Completed(pool[get(name)]) /\ completedCount > 0
                   THEN completedCount - 1 ELSE completedCount
            /\ tasks' = Without(tasks, get(name))
            /\ thrown' = FALSE
            /\ keys' = KeysAfterRemove(get(name))
            /\ emitted' = Append(Log, Event("taskRemoved", get(name)))
            /\ UNCHANGED <<state, tickCount, runCount, startTime, stopTime,
                           options, timer, clocks, pool, aliased>>

\* get(name) and _getNewTaskName() on the registry as it is while add(list)
\* walks its list.
getIn(ts, pl, name) ==
    IF \E k \in 1..Len(ts) : pl[ts[k]].name = name
    THEN ts[CHOOSE k \in 1..Len(ts) : pl[ts[k]].name = name]
    ELSE 0

RECURSIVE NewNameIn(_, _, _)
NewNameIn(ts, pl, num) ==
    IF getIn(ts, pl, TaskNameTable[num + 1]) # 0 THEN NewNameIn(ts, pl, num + 1)
    ELSE TaskNameTable[num + 1]

NewTask(o, name) ==
    [made |-> TRUE, name |-> name, tickInterval |-> o.tickInterval,
     totalRuns |-> o.totalRuns, currentRuns |-> 0, enabled |-> TRUE,
     stopDate |-> o.stopDate, expired |-> FALSE]

\* _add(item) as one iteration of add(list)'s forEach, on the registry r the
\* earlier items have left; once an item has thrown, forEach is over.
AddItem(r, i) ==
    IF r.thrown THEN r
    ELSE LET name == IF r.pool[i].made THEN r.pool[i].name
                     ELSE IF AllOptions[i].name = ""
                          THEN NewNameIn(r.tasks, r.pool, Len(r.tasks))
                          ELSE AllOptions[i].name
         IN  IF getIn(r.tasks, r.pool, name) # 0
             THEN [r EXCEPT !.thrown = TRUE]
             ELSE [tasks |-> Append(r.tasks, i),
                   pool |-> IF r.pool[i].made THEN r.pool
                            ELSE [r.pool EXCEPT ![i] = NewTask(AllOptions[i], name)],
                   emitted |-> Append(r.emitted, Event("taskAdded", i)),
                   thrown |-> FALSE]

RECURSIVE AddAll(_, _)
AddAll(r, list) ==
    IF list = <<>> THEN r ELSE AddAll(AddItem(r, Head(list)), Tail(list))

\* The arrays passed to add(): two different items.
Lists == {l \in RegistryIds \X RegistryIds : l[1] # l[2]}

\* add(list) with an array: list.forEach(item => this._add(item)).
AddList(list) ==
    /\ Call("add")
    /\ LET r == AddAll([tasks |-> tasks, pool |-> pool, emitted |-> Log,
                        thrown |-> FALSE], list)
           added == SubSeq(r.tasks, Len(tasks) + 1, Len(r.tasks))
       IN  /\ tasks' = r.tasks
           /\ pool' = r.pool
           /\ emitted' = r.emitted
           /\ thrown' = r.thrown
           /\ IF InLoop /\ aliased
              THEN \E visit \in SUBSET SeqToSet(added) :
                       keys' = keys \o SelectSeq(added, LAMBDA x : x \in visit)
              ELSE keys' = keys
    /\ UNCHANGED <<state, tickCount, runCount, startTime, stopTime, completedCount,
                   options, timer, clocks, aliased>>

\* The instances the timer still refers to: registered, or held by the loop.
InUse(i) == i \in SeqToSet(tasks) \/ i \in SeqToSet(keys) \/ i = cur

\* task.enabled = b
SetEnabled(i, b) ==
    /\ Call("enabled")
    /\ thrown' = FALSE
    /\ InUse(i)
    /\ pool[i].enabled # b
    /\ pool' = [pool EXCEPT ![i].enabled = b]
    /\ emitted' = Log
    /\ UNCHANGED <<state, tickCount, runCount, startTime, stopTime, completedCount,
                   options, tasks, timer, clocks, keys, aliased>>

\* timer.stopOnCompleted = b
SetStopOnCompleted(b) ==
    /\ Call("stopOnCompleted")
    /\ thrown' = FALSE
    /\ options.stopOnCompleted # b
    /\ options' = [options EXCEPT !.stopOnCompleted = b]
    /\ emitted' = Log
    /\ UNCHANGED <<state, tickCount, runCount, startTime, stopTime, completedCount,
                   tasks, timer, clocks, pool, keys, aliased>>

\* The values assigned to timer.interval; 0 stands for any falsy value.
IntervalValues == {0, 500}

\* timer.interval = value
SetInterval(value) ==
    /\ Call("interval")
    /\ thrown' = FALSE
    /\ options.interval # (IF value = 0 THEN DEFAULT_INTERVAL ELSE value)
    /\ options' = [options EXCEPT
                      !.interval = IF value = 0 THEN DEFAULT_INTERVAL ELSE value]
    /\ emitted' = Log
    /\ UNCHANGED <<state, tickCount, runCount, startTime, stopTime, completedCount,
                   tasks, timer, clocks, pool, keys, aliased>>

\* Time passes a task's stopDate (Date.now() >= stopDate from now on).
Expire(i) ==
    /\ pc \in {"idle", "callback"}
    /\ InUse(i) /\ pool[i].stopDate /\ ~pool[i].expired
    /\ pool' = [pool EXCEPT ![i].expired = TRUE]
    /\ UNCHANGED <<state, tickCount, runCount, startTime, stopTime, completedCount,
                   options, tasks, timer, clocks, pc, keys, aliased, cur, reent,
                   emitted, lastOp, pre, ran, thrown>>

\* ------------------------------------------------------------ tick handler
Bounded == tickCount < MaxTicks /\ \A i \in TaskIds : pool[i].currentRuns < MaxRuns

\* for (name in tasks): the keys of an object are listed with the array
\* indices first, in ascending numeric order, and then the other names in the
\* order in which they were inserted.
IsIndex(name) == \E k \in DOMAIN IndexNames : IndexNames[k] = name
IndexOf(name) == CHOOSE k \in DOMAIN IndexNames : IndexNames[k] = name
ForIn(ts) ==
    SortSeq(SelectSeq(ts, LAMBDA i : IsIndex(pool[i].name)),
            LAMBDA i, j : IndexOf(pool[i].name) < IndexOf(pool[j].name))
    \o SelectSeq(ts, LAMBDA i : ~IsIndex(pool[i].name))

\* A scheduled clock fires: _tick() begins, `tasks` is bound and its keys listed.
Wakeup(c) ==
    /\ pc = "idle"
    /\ c \in clocks
    /\ Bounded
    /\ pc' = "loop"
    /\ keys' = ForIn(tasks)
    /\ aliased' = TRUE
    /\ cur' = 0
    /\ reent' = 0
    /\ emitted' = <<>>
    /\ lastOp' = ""
    /\ pre' = Snapshot
    /\ ran' = {}
    /\ thrown' = FALSE
    /\ UNCHANGED <<state, tickCount, runCount, startTime, stopTime, completedCount,
                   options, tasks, timer, clocks, pool>>

TickFrame == UNCHANGED <<reent, lastOp, pre, thrown>>


\* One iteration of the loop: the modulus test, then Task._run's guard.
LoopNextMut ==
    /\ pc = "loop" /\ keys # <<>>
    /\ keys' = Tail(keys)
    /\ cur' = Head(keys)
    /\ IF pre.tickCount % pool[Head(keys)].tickInterval = 0 /\ Head(keys) \in pre.due
       THEN pc' = "callback" /\ ran' = ran \cup {Head(keys)}
       ELSE pc' = "loop" /\ ran' = ran
    /\ TickFrame
    /\ UNCHANGED <<state, tickCount, runCount, startTime, stopTime, completedCount,
                   options, tasks, timer, clocks, pool, aliased, emitted>>

LoopNextNoGuard ==
    /\ pc = "loop" /\ keys # <<>>
    /\ keys' = Tail(keys)
    /\ cur' = Head(keys)
    /\ IF tickCount % pool[Head(keys)].tickInterval = 0 /\ pool[Head(keys)].enabled
       THEN pc' = "callback" /\ ran' = ran \cup {Head(keys)}
       ELSE pc' = "loop" /\ ran' = ran
    /\ TickFrame
    /\ UNCHANGED <<state, tickCount, runCount, startTime, stopTime, completedCount,
                   options, tasks, timer, clocks, pool, aliased, emitted>>

LoopNext ==
    /\ pc = "loop" /\ keys # <<>>
    /\ keys' = Tail(keys)
    /\ cur' = Head(keys)
    /\ IF tickCount % pool[Head(keys)].tickInterval = 0 /\ RunDecision(pool[Head(keys)])
       THEN pc' = "callback" /\ ran' = ran \cup {Head(keys)}
       ELSE pc' = "loop" /\ ran' = ran
    /\ TickFrame
    /\ UNCHANGED <<state, tickCount, runCount, startTime, stopTime, completedCount,
                   options, tasks, timer, clocks, pool, aliased, emitted>>

CallbackReturnMut ==
    /\ pc = "callback"
    /\ pool' = [pool EXCEPT ![cur] = TaskRun(pool[cur])]
    /\ runCount' = TaskRun(pool[cur]).currentRuns
    /\ emitted' = Append(emitted, Event("task", cur))
    /\ pc' = "evTask"
    /\ TickFrame
    /\ UNCHANGED <<state, tickCount, startTime, stopTime, completedCount,
                   options, tasks, timer, clocks, keys, aliased, cur, ran>>

\* The callback returns: Task._run counts the run and calls onRun, which
\* counts it in runCount and emits Task.
CallbackReturn ==
    /\ pc = "callback"
    /\ pool' = [pool EXCEPT ![cur] = TaskRun(pool[cur])]
    /\ runCount' = runCount + 1
    /\ emitted' = Append(emitted, Event("task", cur))
    /\ pc' = "evTask"
    /\ TickFrame
    /\ UNCHANGED <<state, tickCount, startTime, stopTime, completedCount,
                   options, tasks, timer, clocks, keys, aliased, cur, ran>>

\* if (task.completed) { completedCount++; emit TaskCompleted }
AfterTask ==
    /\ pc = "evTask"
    /\ IF Completed(pool[cur])
       THEN /\ completedCount' = completedCount + 1
            /\ emitted' = Append(emitted, Event("taskCompleted", cur))
            /\ pc' = "evTaskCompleted"
       ELSE /\ pc' = "check"
            /\ UNCHANGED <<completedCount, emitted>>
    /\ TickFrame
    /\ UNCHANGED <<state, tickCount, runCount, startTime, stopTime,
                   options, tasks, timer, clocks, pool, keys, aliased, cur, ran>>

AfterTaskCompleted ==
    /\ pc = "evTaskCompleted"
    /\ pc' = "check"
    /\ TickFrame
    /\ UNCHANGED <<state, tickCount, runCount, startTime, stopTime, completedCount,
                   options, tasks, timer, clocks, pool, keys, aliased, cur, ran, emitted>>

\* if (completedCount === taskCount) emit Completed
CheckCompleted ==
    /\ pc = "check"
    /\ IF completedCount = taskCount
       THEN /\ emitted' = Append(emitted, Event("completed", 0))
            /\ pc' = "evCompleted"
       ELSE /\ pc' = "loop"
            /\ UNCHANGED emitted
    /\ TickFrame
    /\ UNCHANGED <<state, tickCount, runCount, startTime, stopTime, completedCount,
                   options, tasks, timer, clocks, pool, keys, aliased, cur, ran>>

\* if (this.stopOnCompleted) this.stop()
AfterCompleted ==
    /\ pc = "evCompleted"
    /\ IF options.stopOnCompleted
       THEN /\ StopBody
            /\ pc' = IF state = "running" THEN "evStopped" ELSE "loop"
       ELSE /\ pc' = "loop"
            /\ UNCHANGED <<state, clocks, timer, stopTime, emitted>>
    /\ TickFrame
    /\ UNCHANGED <<tickCount, runCount, startTime, completedCount,
                   options, tasks, pool, keys, aliased, cur, ran>>

AfterStopped ==
    /\ pc = "evStopped"
    /\ pc' = "loop"
    /\ TickFrame
    /\ UNCHANGED <<state, tickCount, runCount, startTime, stopTime, completedCount,
                   options, tasks, timer, clocks, pool, keys, aliased, cur, ran, emitted>>

LoopEndMut ==
    /\ pc = "loop" /\ keys = <<>>
    /\ tickCount' = IF ran = {} THEN tickCount ELSE tickCount + 1
    /\ emitted' = Append(emitted, Event("tick", 0))
    /\ pc' = "evTick"
    /\ TickFrame
    /\ UNCHANGED <<state, runCount, startTime, stopTime, completedCount,
                   options, tasks, timer, clocks, pool, keys, aliased, cur, ran>>

\* The loop is over: tickCount += 1; emit Tick.
LoopEnd ==
    /\ pc = "loop" /\ keys = <<>>
    /\ tickCount' = tickCount + 1
    /\ emitted' = Append(emitted, Event("tick", 0))
    /\ pc' = "evTick"
    /\ TickFrame
    /\ UNCHANGED <<state, runCount, startTime, stopTime, completedCount,
                   options, tasks, timer, clocks, pool, keys, aliased, cur, ran>>

\* _tick() has returned to the setInterval callback: this._.state = RUNNING.
TickReturn ==
    /\ pc = "evTick"
    /\ state' = "running"
    /\ pc' = "idle"
    /\ aliased' = FALSE
    /\ cur' = 0
    /\ reent' = 0
    /\ pre' = NoSnapshot
    /\ ran' = {}
    /\ emitted' = <<>>
    /\ lastOp' = ""
    /\ thrown' = FALSE
    /\ UNCHANGED <<tickCount, runCount, startTime, stopTime, completedCount,
                   options, tasks, timer, clocks, pool, keys>>

\* A public method called between ticks returns to its caller.
Return ==
    /\ pc = "ret"
    /\ pc' = "idle"
    /\ emitted' = <<>>
    /\ lastOp' = ""
    /\ thrown' = FALSE
    /\ UNCHANGED <<state, tickCount, runCount, startTime, stopTime, completedCount,
                   options, tasks, timer, clocks, pool, keys, aliased, cur, reent,
                   pre, ran>>

Names == SeqToSet(TaskNameTable)

Next ==
    \/ Start
    \/ Pause
    \/ Resume
    \/ Stop
    \/ Reset
    \/ \E i \in TaskIds : AddOptions(i)
    \/ \E i \in TaskIds : AddInstance(i)
    \/ \E n \in Names : Remove(n)
    \/ \E i \in TaskIds, b \in BOOLEAN : SetEnabled(i, b)
    \/ \E b \in BOOLEAN : SetStopOnCompleted(b)
    \/ \E i \in TaskIds : Expire(i)
    \/ \E c \in clocks : Wakeup(c)
    \/ LoopNext
    \/ CallbackReturn
    \/ AfterTask
    \/ AfterTaskCompleted
    \/ CheckCompleted
    \/ AfterCompleted
    \/ AfterStopped
    \/ LoopEnd
    \/ TickReturn
    \/ Return

Spec == Init /\ [][Next]_vars

\* The registry on its own: add() with single items and with arrays, with and
\* without names, and remove(), on a timer that is never started.
RegistryNames == Names \cup {"job"}

NextRegistry ==
    \/ \E i \in RegistryIds : AddOptions(i)
    \/ \E i \in RegistryIds : AddInstance(i)
    \/ \E list \in Lists : AddList(list)
    \/ \E n \in RegistryNames : Remove(n)
    \/ Return

SpecRegistry == Init /\ [][NextRegistry]_vars

\* The clock on its own: the lifecycle methods and the interval option, on a
\* timer without tasks.
NextInterval ==
    \/ \E value \in IntervalValues : SetInterval(value)
    \/ Start
    \/ Pause
    \/ Resume
    \/ Stop
    \/ \E c \in clocks : Wakeup(c)
    \/ LoopEnd
    \/ TickReturn
    \/ Return

SpecInterval == Init /\ [][NextInterval]_vars

\* A timer that is set up and started between ticks and then left to its
\* clock: tasks with a finite totalRuns and no stopDate are added, removed and
\* added again, the timer is started, and no callback or listener calls it.
LiveIds == {i \in PoolIds : AllOptions[i].totalRuns > 0 /\ ~AllOptions[i].stopDate}

\* One step of the clock and of the tick handler it wakes.
TickStep ==
    \/ \E c \in clocks : Wakeup(c)
    \/ LoopNext
    \/ CallbackReturn
    \/ AfterTask
    \/ AfterTaskCompleted
    \/ CheckCompleted
    \/ AfterCompleted
    \/ AfterStopped
    \/ LoopEnd
    \/ TickReturn

NextLive ==
    \/ \E i \in LiveIds : pc = "idle" /\ AddOptions(i)
    \/ \E i \in LiveIds : pc = "idle" /\ AddInstance(i)
    \/ \E n \in Names : pc = "idle" /\ Remove(n)
    \/ pc = "idle" /\ Start
    \/ Return
    \/ TickStep

\* setInterval keeps firing while the clock is scheduled, and the handler it
\* calls runs to its end.
SpecLive == Init /\ [][NextLive]_vars /\ WF_vars(TickStep)

\* The same timer with its stopOnCompleted option set and cleared between
\* ticks: every event of a tick is then emitted by the tick handler itself.
NextOrder ==
    \/ NextLive
    \/ \E b \in BOOLEAN : pc = "idle" /\ SetStopOnCompleted(b)

SpecOrder == Init /\ [][NextOrder]_vars

\* ================================================================ claims
CountType(log, type) == Cardinality({k \in 1..Len(log) : log[k].type = type})

\* The step is a call of the public method `op` (between ticks, or from a
\* callback or listener during a tick).
CallStep(op) ==
    /\ lastOp' = op
    /\ \/ (pc = "idle" /\ pc' = "ret")
       \/ (pc \in ListenerPoints /\ reent' = reent + 1)

\* The step is the return of the tick handler to the host.
TickEnds == pc = "evTick" /\ pc' = "idle"

Capped(i) == pool[i].made /\ pool[i].totalRuns > 0 /\ ~pool[i].stopDate

\* C2: a task with totalRuns = N and no stopDate never has currentRuns > N; with
\* currentRuns = N it is completed; once completed it stays completed and is
\* not executed again.
C2_RunCountLaw ==
    /\ [](\A i \in TaskIds : Capped(i) =>
            /\ pool[i].currentRuns <= pool[i].totalRuns
            /\ (pool[i].currentRuns = pool[i].totalRuns => Completed(pool[i])))
    /\ [][\A i \in TaskIds : (Capped(i) /\ Completed(pool[i])) =>
            /\ Completed(pool'[i])
            /\ pool'[i].currentRuns = pool[i].currentRuns
            /\ ~(pc' = "callback" /\ cur' = i /\ pc = "loop")]_vars

\* The loop has just visited a task that has run N times, is enabled and due on
\* this tick, and has not executed it.
C2_Witness ==
    /\ pc = "loop" /\ cur \in TaskIds /\ cur \notin ran
    /\ Capped(cur) /\ pool[cur].currentRuns = pool[cur].totalRuns
    /\ pool[cur].enabled /\ tickCount % pool[cur].tickInterval = 0

\* ---------------------------------------------------------------------- C3
\* C3: with stopOnCompleted set, when the last task that was not completed
\* completes during a tick, the state is Stopped once the tick handler has
\* finished.
C3_StoppedAfterTick ==
    [][(/\ TickEnds
        /\ options.stopOnCompleted
        /\ ~pre.allDone /\ AllDone
        /\ CountType(emitted, "taskCompleted") > 0
        /\ reent = 0)
       => state' = "stopped"]_vars

\* ---------------------------------------------------------------------- C4
\* C4: with stopOnCompleted set, the step that follows the emission of Completed
\* leaves no clock scheduled; a clock is scheduled again only by start() or
\* resume(); and a tick is evaluated (tickCount changed, Tick emitted) only on
\* the wakeup of a scheduled clock.
C4_NoTickAfterCompleted ==
    [][/\ (pc = "evCompleted" /\ pc' # "evCompleted" /\ options.stopOnCompleted)
            => (clocks' = {} /\ timer' = 0)
       /\ (clocks = {} /\ clocks' # {}) => (CallStep("start") \/ CallStep("resume"))
       /\ (pc = "idle" /\ pc' = "loop") => clocks # {}
       /\ (tickCount' > tickCount \/ CountType(emitted', "tick") > CountType(emitted, "tick"))
            => (pc = "loop" /\ keys = <<>> /\ pc' = "evTick")]_vars

\* The timer has stopped itself in a tick and no clock is left.
C4_Witness ==
    /\ pc = "evStopped" /\ options.stopOnCompleted /\ clocks = {}
    /\ CountType(emitted, "completed") = 1

\* ---------------------------------------------------------------------- C5
\* C5: between operations, completedCount is the number of registered tasks
\* that are completed, and it is never negative.
C5_CompletedCount == pc = "idle" => (completedCount = NumCompleted /\ completedCount >= 0)

\* ---------------------------------------------------------------------- C6
\* C6: whenever the aggregate Completed event is emitted, taskCount > 0.
C6_NeverVacuous ==
    [][CountType(emitted', "completed") > CountType(emitted, "completed") => taskCount > 0]_vars

\* ---------------------------------------------------------------------- C7
\* C7: an operation or tick that takes the registry from `not every task
\* completed` to `every task completed, and at least one task` emits exactly one
\* Completed event.
C7_OncePerTransition ==
    [][/\ (pc = "idle" /\ pc' = "ret" /\ ~AllDone /\ AllDone')
            => CountType(emitted', "completed") = 1
       /\ (TickEnds /\ ~pre.allDone /\ AllDone)
            => CountType(emitted, "completed") = 1]_vars

\* ---------------------------------------------------------------------- C8
LoopEvents == {"task", "taskCompleted", "completed"}
TickIsLast(log) ==
    \A k \in 1..Len(log) : log[k].type = "tick" =>
        \A m \in (k + 1)..Len(log) : log[m].type \notin LoopEvents

\* C8: every wakeup increments tickCount exactly once, by 1, after the task
\* loop, and then emits exactly one Tick event, whether or not any task ran; no
\* event of the task loop follows the Tick event; and tickCount is one more
\* than at the wakeup when the handler has finished (start() and reset(), when
\* a callback or listener calls them during the tick, set it to 0 as they do
\* between ticks).
C8_TickStep ==
    [][/\ (pc = "loop" /\ keys = <<>>) =>
            /\ tickCount' = tickCount + 1
            /\ emitted' = Append(emitted, Event("tick", 0))
       /\ (pc \notin {"idle", "ret"} /\ pc' \notin {"idle", "ret"} /\ ~(pc = "loop" /\ keys = <<>>))
            => /\ CountType(emitted', "tick") = CountType(emitted, "tick")
               /\ (tickCount' # tickCount => (CallStep("start") \/ CallStep("reset")))
       /\ TickEnds =>
            /\ CountType(emitted, "tick") = 1
            /\ TickIsLast(emitted)
            /\ (CountType(emitted, "started") = 0 /\ CountType(emitted, "reset") = 0)
                  => tickCount = pre.tickCount + 1]_vars

\* A tick in which no task ran has incremented tickCount and emitted Tick.
C8_Witness ==
    /\ pc = "evTick" /\ ran = {} /\ tasks # <<>>
    /\ tickCount = pre.tickCount + 1 /\ emitted = <<Event("tick", 0)>>

\* ---------------------------------------------------------------------- C9
\* C9: start(), from any state, leaves the timer Running with tickCount = 0,
\* runCount = 0, stopTime = 0 and exactly one clock scheduled (the one
\* this._timer holds), emits exactly one Started event, and changes neither the
\* registry, nor any task, nor completedCount.
C9_Start ==
    [][CallStep("start") =>
        /\ state' = "running"
        /\ tickCount' = 0 /\ runCount' = 0 /\ stopTime' = 0
        /\ timer' # 0
        /\ clocks' = {[h |-> timer', period |-> options.interval]}
        /\ emitted' = Append(Log, Event("started", 0))
        /\ tasks' = tasks /\ pool' = pool /\ completedCount' = completedCount]_vars

\* start() has been called on a stopped timer that had counted runs.
C9_Witness ==
    /\ pc = "ret" /\ lastOp = "start" /\ stopTime = 0 /\ runCount = 0
    /\ startTime = 1 /\ completedCount > 0
    /\ \E i \in SeqToSet(tasks) : pool[i].currentRuns > 0

\* --------------------------------------------------------------------- C10
NoEffect ==
    /\ UNCHANGED <<state, tickCount, runCount, startTime, stopTime, completedCount,
                   options, tasks, timer, clocks, pool>>
    /\ emitted' = Log

\* C10: pause() when not Running, resume() when not Paused and stop() when not
\* Running change nothing and emit no event.
C10_WrongStateNoOp ==
    [][/\ (CallStep("pause") /\ state # "running") => NoEffect
       /\ (CallStep("resume") /\ state # "paused") => NoEffect
       /\ (CallStep("stop") /\ state # "running") => NoEffect]_vars

\* pause() has returned on a stopped timer.
C10_Witness ==
    /\ pc = "ret" /\ lastOp = "pause" /\ state = "stopped" /\ emitted = <<>>
    /\ tasks # <<>>

\* --------------------------------------------------------------------- C11
Counters ==
    <<tickCount, runCount, completedCount, [i \in DOMAIN pool |-> pool[i].currentRuns]>>

\* C11: pause() on a Running timer stops the clock, sets the state to Paused,
\* emits exactly one Paused event and changes no counter; while the timer is
\* Paused between ticks no clock is scheduled, a tick begins only in state
\* Running, and tickCount, runCount, every currentRuns and completedCount keep
\* their values (unless start(), reset() or remove() is called); resume() on a
\* Paused timer sets the state to Running with one clock scheduled, emits
\* exactly one Resumed event and changes no counter.
C11_PauseResume ==
    /\ [](pc \in {"idle", "ret"} /\ state = "paused" => clocks = {} /\ timer = 0)
    /\ [][/\ (pc = "idle" /\ pc' = "loop") => state = "running"
          /\ (CallStep("pause") /\ state = "running") =>
                /\ state' = "paused" /\ clocks' = {} /\ timer' = 0
                /\ Counters' = Counters
                /\ emitted' = Append(Log, Event("paused", 0))
          /\ (state = "paused" /\ pc \in {"idle", "ret"}) =>
                \/ Counters' = Counters
                \/ CallStep("start") \/ CallStep("reset") \/ CallStep("remove")
          /\ (CallStep("resume") /\ state = "paused") =>
                /\ state' = "running"
                /\ Counters' = Counters
                /\ timer' # 0
                /\ clocks' = {[h |-> timer', period |-> options.interval]}
                /\ emitted' = Append(Log, Event("resumed", 0))]_vars

\* resume() has returned on a timer that was paused after it had counted ticks
\* and runs.
C11_Witness ==
    /\ pc = "ret" /\ lastOp = "resume" /\ state = "running"
    /\ emitted = <<Event("resumed", 0)>>
    /\ tickCount > 0 /\ runCount > 0 /\ clocks # {}

\* --------------------------------------------------------------------- C12
\* C12: reset(), from any state, leaves the timer Idle with an empty registry,
\* tickCount = runCount = completedCount = 0, startTime = stopTime = 0 and no
\* clock scheduled; it emits exactly one Reset event and no TaskRemoved event;
\* the options are kept.
C12_Reset ==
    [][CallStep("reset") =>
        /\ state' = "idle" /\ tasks' = <<>>
        /\ tickCount' = 0 /\ runCount' = 0 /\ completedCount' = 0
        /\ startTime' = 0 /\ stopTime' = 0
        /\ timer' = 0 /\ clocks' = {}
        /\ emitted' = Append(Log, Event("reset", 0))
        /\ options' = options]_vars

\* reset() has been called by the callback of the first task of a tick, on a
\* running timer with stopOnCompleted set: the registry is empty, the clock is
\* gone and Reset is the only event.
C12_Witness ==
    /\ pc = "callback" /\ lastOp = "reset" /\ reent = 1 /\ cur # 0
    /\ state = "idle" /\ tasks = <<>> /\ clocks = {} /\ timer = 0
    /\ emitted = <<Event("reset", 0)>>
    /\ options.stopOnCompleted

\* --------------------------------------------------------------------- C13
UniqueNames ==
    \A k, m \in 1..Len(tasks) : k # m => pool[tasks[k]].name # pool[tasks[m]].name

\* C13: no two registered tasks have the same name, and an add() call that
\* fails with a naming conflict, with a single item or with an array, leaves the
\* registry as it was and emits no event.
C13_ConflictAtomic ==
    /\ []UniqueNames
    /\ [][(CallStep("add") /\ thrown') => (tasks' = tasks /\ emitted' = Log)]_vars

\* --------------------------------------------------------------------- C14
\* The step is add() of one task-options record without a name: task i is made
\* and registered.
AddsUnnamed(i) ==
    /\ CallStep("add") /\ ~thrown'
    /\ Len(tasks') = Len(tasks) + 1
    /\ ~pool[i].made /\ pool'[i].made /\ AllOptions[i].name = ""

\* 'task-N' for the lowest N > from such that no registered task has that name.
LowestFreeAbove(from) ==
    TaskNameTable[CHOOSE n \in (from + 1)..Len(TaskNameTable) :
                      /\ get(TaskNameTable[n]) = 0
                      /\ \A m \in (from + 1)..(n - 1) : get(TaskNameTable[m]) # 0]

\* C14 as stated: a task added without a name is named 'task-N' for the lowest
\* positive N such that 'task-N' is not in the registry.
C14_LowestUnused ==
    [][\A i \in PoolIds : AddsUnnamed(i) => pool'[i].name = LowestFreeAbove(0)]_vars

\* C14 amended: a task added without a name is named 'task-N' for the lowest N
\* greater than the number of registered tasks such that 'task-N' is not in the
\* registry; the name is not in the registry before the call.
C14_LowestAboveCount ==
    [][\A i \in PoolIds : AddsUnnamed(i) =>
            /\ pool'[i].name = LowestFreeAbove(taskCount)
            /\ get(pool'[i].name) = 0
            /\ tasks' = Append(tasks, i)]_vars

\* A task has been added without a name and is 'task-3' in a registry that has
\* a task with a name of its own and no 'task-1'.
C14_Witness ==
    /\ pc = "ret" /\ lastOp = "add" /\ ~thrown /\ tasks # <<>>
    /\ AllOptions[tasks[Len(tasks)]].name = ""
    /\ pool[tasks[Len(tasks)]].name = "task-3"
    /\ get("task-1") = 0 /\ get("job") # 0

\* --------------------------------------------------------------------- C15
\* C15: tickCount is 0 after stop() has taken effect, as it is after reset().
C15_ZeroWhenStopped ==
    [][((CallStep("stop") /\ state = "running") \/ CallStep("reset"))
           => tickCount' = 0]_vars

\* --------------------------------------------------------------------- C16
\* C16: when a tick handler returns, the clock that is scheduled has the period
\* options.interval, whatever was assigned to the interval option before that
\* wakeup (ticks during which a callback or listener called the timer are left
\* out).
C16_IntervalNextCycle ==
    [][(TickEnds /\ reent = 0) => \A c \in clocks' : c.period = options'.interval]_vars

\* --------------------------------------------------------------------- C18
\* C18: when the tick handler has returned, the state is Paused if a callback
\* or listener called pause() during the tick and it took effect, and the timer
\* is Idle with tickCount = 0, runCount = 0 and an empty registry if one called
\* reset() (the call being the last one made during that tick).
C18_CallDuringTick ==
    [][TickEnds =>
        /\ (lastOp = "pause" /\ CountType(emitted, "paused") = 1) => state' = "paused"
        /\ lastOp = "reset" =>
              (state' = "idle" /\ tickCount' = 0 /\ runCount' = 0 /\ tasks' = <<>>)]_vars

\* --------------------------------------------------------------------- C20
\* The step is one task execution: its callback has returned.
Execution == pc = "callback" /\ pc' = "evTask"

\* C20: runCount is incremented by exactly 1 by every task execution, together
\* with the emission of its Task event, and no other step emits a Task event;
\* start() and reset() set it to 0; no other step changes it (pause, resume,
\* stop, add, remove and the rest of the tick handler included); and start()
\* leaves every task's currentRuns as it is.
C20_RunCount ==
    [][/\ Execution =>
            /\ runCount' = runCount + 1
            /\ emitted' = Append(emitted, Event("task", cur))
       /\ CountType(emitted', "task") > CountType(emitted, "task") => Execution
       /\ (CallStep("start") \/ CallStep("reset")) => runCount' = 0
       /\ CallStep("start") =>
            \A i \in DOMAIN pool : pool'[i].currentRuns = pool[i].currentRuns
       /\ ~(Execution \/ CallStep("start") \/ CallStep("reset")) =>
            runCount' = runCount]_vars

\* A task has been executed for the second time and runCount is 1: start() was
\* called after its first execution.
C20_Witness ==
    /\ pc = "evTask" /\ runCount = 1 /\ pool[cur].currentRuns = 2
    /\ emitted = <<Event("task", cur)>>

\* --------------------------------------------------------------------- C17
\* Every registered task is enabled, has a finite totalRuns and no stopDate.
AllCapped == \A i \in SeqToSet(tasks) : Capped(i) /\ pool[i].enabled

\* C17, in the form a finite run refutes: on a timer whose registered tasks are
\* all enabled with a finite totalRuns and no stopDate and which only its clock
\* drives, the tick that brings the last task to currentRuns = totalRuns emits
\* the Completed event.  (No later tick can: once every task is completed
\* nothing is executed, and Completed is emitted only from an execution.)
C17_Converges ==
    [][(/\ TickEnds /\ reent = 0
        /\ tasks # <<>> /\ AllCapped
        /\ ~pre.allDone
        /\ \A i \in SeqToSet(tasks) :
              pool[i].currentRuns = pool[i].totalRuns /\ Completed(pool[i]))
       => CountType(emitted, "completed") > 0]_vars

\* --------------------------------------------------------------------- C19
\* The tasks of the Task events of a log, in the order of the events.
Executed(log) ==
    LET ev == SelectSeq(log, LAMBDA e : e.type = "task")
    IN  [k \in 1..Len(ev) |-> ev[k].data]

\* C19: in a tick during which no callback or listener calls the timer, the
\* Task events follow the order in which the executed tasks were inserted into
\* the registry; a TaskCompleted event directly follows the Task event of the
\* same task, which is then completed; a Completed event directly follows a
\* TaskCompleted event and is emitted only when every registered task is
\* completed; a Stopped event directly follows a Completed event and needs
\* stopOnCompleted; and the Tick event is the last event and the only one of
\* its type.
C19_EventOrder ==
    /\ [][(TickEnds /\ reent = 0) =>
            /\ Executed(emitted) = SelectSeq(tasks, LAMBDA i : i \in ran)
            /\ emitted # <<>> /\ emitted[Len(emitted)].type = "tick"
            /\ \A k \in 1..Len(emitted) :
                  LET e == emitted[k] IN
                  /\ e.type \in {"task", "taskCompleted", "completed", "stopped", "tick"}
                  /\ e.type = "taskCompleted" =>
                        k > 1 /\ emitted[k - 1] = Event("task", e.data)
                              /\ Completed(pool[e.data])
                  /\ e.type = "completed" => k > 1 /\ emitted[k - 1].type = "taskCompleted"
                  /\ e.type = "stopped" =>
                        k > 1 /\ emitted[k - 1].type = "completed" /\ options.stopOnCompleted
                  /\ e.type = "tick" => k = Len(emitted)]_vars
    /\ [][(pc = "check" /\ pc' = "evCompleted") => AllDone]_vars

\* --------------------------------------------------------------------- C21
\* C21: between operations (no public method and no tick handler is executing),
\* a timer whose state is Running has its clock scheduled: the stored handle is
\* set and the interval timer it refers to is live.
C21_RunningHasClock ==
    (pc = "idle" /\ state = "running") =>
        (timer # 0 /\ \E c \in clocks : c.h = timer)

\* --------------------------------------------------------------------- C22
\* C22: at any moment at most one interval timer is scheduled, and it is the
\* one the stored handle refers to, whatever start/pause/resume/stop/reset calls
\* are made between ticks or from callbacks and listeners during a tick; and
\* the tick handler is entered only while the state is Running.
C22_SingleClock ==
    /\ [](/\ Cardinality(clocks) <= 1
          /\ \A c \in clocks : c.h = timer)
    /\ [][(pc = "idle" /\ pc' = "loop") => state = "running"]_vars

\* start() called from a callback or listener of a running tick has replaced
\* the clock that woke the handler.
C22_Witness ==
    /\ pc \in ListenerPoints /\ reent > 0 /\ lastOp = "start"
    /\ Cardinality(clocks) = 1 /\ state = "running"

====
